---- MODULE Spec2Model ----
(***************************************************************************)
(* Agentic RAG graph of src/script.js: the nodes generateQueryOrRespond,   *)
(* retrieve (ToolNode), gradeDocuments, rewrite and generate, the two      *)
(* conditional edges, and the messages channel they share.                 *)
(***************************************************************************)
EXTENDS Integers, Sequences, FiniteSets, TLC

VARIABLES
    messages,         \* the messages channel of GraphState (the conversation log)
    pc,               \* the node or conditional edge that runs next
    response,         \* `response` of the running generateQueryOrRespond
    firstResponse,    \* the reply of the first model.invoke of that execution
    settled,          \* per tool call: the ToolMessage its async callback returned
    pending,          \* tool calls whose toolObj.invoke has not returned yet
    invoked,          \* tool calls for which toolObj.invoke was called
    completionOrder,  \* the order in which the callbacks finished
    threw,            \* tool calls whose toolObj.invoke threw
    toolIndex,        \* position of the sequential tool loop (second definition)
    gatewayCalls,     \* model invocations made by the running node execution
    logBefore,        \* state.messages as the running node received it
    score,            \* binaryScore of the latest grading
    verdict,          \* return value of the latest gradeDocuments
    executed,         \* the nodes started so far, in order
    nextId,           \* source of fresh message ids
    cancelAt          \* length of the log when the run's caller asked to cancel

vars == <<messages, pc, response, firstResponse, settled, pending, invoked,
          completionOrder, threw, toolIndex, gatewayCalls, logBefore, score,
          verdict, executed, nextId, cancelAt>>

(* the state of the tool-resolution round of generateQueryOrRespond *)
round == <<settled, pending, invoked, completionOrder, threw, toolIndex>>
grading == <<score, verdict>>

----------------------------------------------------------------------------
(* Bounds of the model *)

MaxCalls == 2
MaxLog == 6
IterationCap == 1

----------------------------------------------------------------------------
(* Data *)

RetrieverName == "retrieve_blog_posts"
ToolNames == {RetrieverName, "no_such_tool"}
tools == {RetrieverName}

NoCallId == <<>>
NoSignal == -1
NoMsg == [id |-> 0, type |-> "none", content |-> "", tool_calls |-> <<>>,
          tool_call_id |-> NoCallId]
Unsettled == [id |-> 0, type |-> "promise", content |-> "", tool_calls |-> <<>>,
              tool_call_id |-> NoCallId]

HumanMessage(i, c) ==
    [id |-> i, type |-> "human", content |-> c, tool_calls |-> <<>>,
     tool_call_id |-> NoCallId]

AIMessage(i, c, calls) ==
    [id |-> i, type |-> "ai", content |-> c, tool_calls |-> calls,
     tool_call_id |-> NoCallId]

ToolMessage(c, callId) ==
    [id |-> 0, type |-> "tool", content |-> c, tool_calls |-> <<>>,
     tool_call_id |-> callId]

(* The tool_calls of a model reply: names in order, call ids unique. *)
ToolCalls(names, replyId) ==
    [i \in 1..Len(names) |-> [name |-> names[i], id |-> <<replyId, i>>]]

CallBatches == UNION {[1..k -> ToolNames] : k \in 0..MaxCalls}

Last(s) == s[Len(s)]

(* What toolObj.invoke can do: return a string, return an object, throw. *)
ToolOutcomes ==
    {[kind |-> "string", value |-> "docs"],
     [kind |-> "object", value |-> "docs"],
     [kind |-> "throw", value |-> "boom"]}

(* Tool outputs seen by the retrieve node. *)
RetrieveOutcomes ==
    {[kind |-> "string", value |-> "meow"],
     [kind |-> "string", value |-> "generate"]}

Scores == {"yes", "no", "maybe"}

----------------------------------------------------------------------------
(* messagesStateReducer: right-hand messages replace the left-hand message *)
(* with the same id, others are appended; messages without id get one.     *)

RECURSIVE AssignIds(_, _)
AssignIds(msgs, n) ==
    IF msgs = <<>> THEN <<>>
    ELSE IF Head(msgs).id = 0
         THEN <<[Head(msgs) EXCEPT !.id = n]>> \o AssignIds(Tail(msgs), n + 1)
         ELSE <<Head(msgs)>> \o AssignIds(Tail(msgs), n)

FreshCount(msgs) == Cardinality({i \in 1..Len(msgs) : msgs[i].id = 0})

RECURSIVE MergeById(_, _)
MergeById(left, right) ==
    IF right = <<>> THEN left
    ELSE LET m == Head(right)
             hit == {i \in 1..Len(left) : left[i].id = m.id}
         IN  IF hit # {}
             THEN MergeById([left EXCEPT ![CHOOSE i \in hit : TRUE] = m], Tail(right))
             ELSE MergeById(Append(left, m), Tail(right))

messagesStateReducer_Concat(left, right, n) == left \o AssignIds(right, n)

messagesStateReducer(left, right, n) == MergeById(left, AssignIds(right, n))

----------------------------------------------------------------------------
(* generateQueryOrRespond, src/script.js:90-153 *)

cleanMessages(msgs) ==
    SelectSeq(msgs, LAMBDA m : m.type \in {"human", "ai", "tool"})

toolFind_Any(name) == TRUE

toolFind(name) == name \in tools

DefaultToolResult == "Tool execution error"

toolResult_Swallowed(outcome) ==
    IF outcome.kind = "throw"
    THEN [kind |-> "string", value |-> "Tool execution error"]
    ELSE outcome

(* toolResult after the try/catch around toolObj.invoke *)
toolResult(outcome) ==
    IF outcome.kind = "throw"
    THEN [kind |-> "string", value |-> "Error: " \o outcome.value]
    ELSE outcome

(* content of the ToolMessage: the string itself, or JSON.stringify *)
ToolContent(result) ==
    IF result.kind = "string" THEN result.value
    ELSE "{\"" \o result.value \o "\"}"

PromiseAll_ArrivalOrder(results, order) ==
    [j \in 1..Len(order) |-> results[order[j]]]

(* Promise.all: the results in the order of the mapped array. *)
PromiseAll(results, order) == [i \in 1..Len(results) |-> results[i]]

toolResponses_DropsUnknown ==
    SelectSeq(PromiseAll(settled, completionOrder),
              LAMBDA m : m.content # DefaultToolResult)

toolResponses == PromiseAll(settled, completionOrder)

updatedMessages_NoReply == messages \o toolResponses

updatedMessages == messages \o <<response>> \o toolResponses

(* The argument of the first model.invoke is cleanMessages(messages), that *)
(* of the second is updatedMessages; the reply is the model's choice.      *)
firstInvokeInput == cleanMessages(messages)

(* the callbacks that finish without suspending, in call order *)
RECURSIVE Immediate(_, _)
Immediate(calls, i) ==
    IF i > Len(calls) THEN <<>>
    ELSE (IF toolFind(calls[i].name) THEN <<>> ELSE <<i>>) \o Immediate(calls, i + 1)

NoRound ==
    /\ settled' = <<>>
    /\ pending' = {}
    /\ invoked' = {}
    /\ completionOrder' = <<>>
    /\ threw' = {}
    /\ toolIndex' = 0

QR_GatewayFails ==
    /\ pc = "generateQueryOrRespond"
    /\ pc' = "failed"
    /\ executed' = Append(executed, "generateQueryOrRespond")
    /\ gatewayCalls' = 1
    /\ logBefore' = messages
    /\ response' = NoMsg
    /\ firstResponse' = NoMsg
    /\ NoRound
    /\ UNCHANGED <<messages, grading, nextId>>
    /\ UNCHANGED cancelAt

QR_DirectResponse ==
    /\ pc = "generateQueryOrRespond"
    /\ LET reply == AIMessage(nextId, "reply", <<>>)
       IN  /\ response' = reply
           /\ firstResponse' = reply
           /\ messages' = messagesStateReducer(messages, messages \o <<reply>>, nextId + 1)
    /\ nextId' = nextId + 1
    /\ pc' = "shouldRetrieve"
    /\ executed' = Append(executed, "generateQueryOrRespond")
    /\ gatewayCalls' = 1
    /\ logBefore' = messages
    /\ NoRound
    /\ UNCHANGED grading
    /\ UNCHANGED cancelAt

QR_DispatchTools ==
    /\ pc = "generateQueryOrRespond"
    /\ \E names \in CallBatches \ {<<>>} :
         LET calls == ToolCalls(names, nextId)
             reply == AIMessage(nextId, "", calls)
             found == {i \in 1..Len(calls) : toolFind(calls[i].name)}
         IN  /\ response' = reply
             /\ firstResponse' = reply
             /\ invoked' = found
             /\ pending' = found
             /\ settled' = [i \in 1..Len(calls) |->
                              IF i \in found THEN Unsettled
                              ELSE ToolMessage(DefaultToolResult, calls[i].id)]
             /\ completionOrder' = Immediate(calls, 1)
    /\ threw' = {}
    /\ toolIndex' = 0
    /\ nextId' = nextId + 1
    /\ pc' = "awaitTools"
    /\ executed' = Append(executed, "generateQueryOrRespond")
    /\ gatewayCalls' = 1
    /\ logBefore' = messages
    /\ UNCHANGED <<messages, grading>>
    /\ UNCHANGED cancelAt

QR_ToolSettles ==
    /\ pc = "awaitTools"
    /\ \E i \in pending, outcome \in ToolOutcomes :
         /\ settled' = [settled EXCEPT
                          ![i] = ToolMessage(ToolContent(toolResult(outcome)),
                                             response.tool_calls[i].id)]
         /\ pending' = pending \ {i}
         /\ completionOrder' = Append(completionOrder, i)
         /\ threw' = IF outcome.kind = "throw" THEN threw \cup {i} ELSE threw
    /\ UNCHANGED <<messages, pc, response, firstResponse, invoked, toolIndex,
                   gatewayCalls, logBefore, grading, executed, nextId>>
    /\ UNCHANGED cancelAt

QR_PostToolResponse_NoBarrier ==
    /\ pc = "awaitTools"
    /\ \E names \in CallBatches :
         LET reply == AIMessage(nextId, IF names = <<>> THEN "reply" ELSE "",
                                ToolCalls(names, nextId))
         IN  /\ response' = reply
             /\ messages' = messagesStateReducer(messages, messages \o <<reply>>, nextId + 1)
    /\ gatewayCalls' = gatewayCalls + 1
    /\ nextId' = nextId + 1
    /\ pc' = "shouldRetrieve"
    /\ NoRound
    /\ UNCHANGED <<firstResponse, logBefore, grading, executed>>
    /\ UNCHANGED cancelAt

QR_PostToolResponse ==
    /\ pc = "awaitTools"
    /\ pending = {}
    /\ \E names \in CallBatches :
         LET reply == AIMessage(nextId, IF names = <<>> THEN "reply" ELSE "",
                                ToolCalls(names, nextId))
         IN  /\ response' = reply
             /\ messages' = messagesStateReducer(messages, messages \o <<reply>>, nextId + 1)
    /\ gatewayCalls' = gatewayCalls + 1
    /\ nextId' = nextId + 1
    /\ pc' = "shouldRetrieve"
    /\ NoRound
    /\ UNCHANGED <<firstResponse, logBefore, grading, executed>>
    /\ UNCHANGED cancelAt

QR_PostToolGatewayFails_KeepsPartial ==
    /\ pc = "awaitTools"
    /\ pending = {}
    /\ gatewayCalls' = gatewayCalls + 1
    /\ pc' = "failed"
    /\ messages' = messagesStateReducer(messages, updatedMessages, nextId)
    /\ nextId' = nextId + FreshCount(updatedMessages)
    /\ UNCHANGED <<response, firstResponse, round, logBefore, grading, executed>>
    /\ UNCHANGED cancelAt

QR_PostToolGatewayFails ==
    /\ pc = "awaitTools"
    /\ pending = {}
    /\ gatewayCalls' = gatewayCalls + 1
    /\ pc' = "failed"
    /\ UNCHANGED <<messages, response, firstResponse, round, logBefore, grading,
                   executed, nextId>>
    /\ UNCHANGED cancelAt

----------------------------------------------------------------------------
(* Conditional edge after generateQueryOrRespond, src/script.js:376-384 *)

END == "END"

shouldRetrieve_AnyAI(msgs) ==
    IF Last(msgs).type = "ai" THEN "retrieve" ELSE END

shouldRetrieve_SkipRetrieve(msgs) ==
    LET lastMessage == Last(msgs)
    IN  IF lastMessage.type = "ai" /\ Len(lastMessage.tool_calls) # 0
        THEN "gradeDocuments"
        ELSE END

shouldRetrieve(msgs) ==
    LET lastMessage == Last(msgs)
    IN  IF lastMessage.type = "ai" /\ Len(lastMessage.tool_calls) # 0
        THEN "retrieve"
        ELSE END

RouteAfterQuery ==
    /\ pc = "shouldRetrieve"
    /\ pc' = shouldRetrieve(messages)
    /\ UNCHANGED <<messages, response, firstResponse, round, gatewayCalls,
                   logBefore, grading, executed, nextId>>
    /\ UNCHANGED cancelAt

----------------------------------------------------------------------------
(* retrieve: the prebuilt ToolNode over tools, src/script.js:373 and 397.  *)
(* It runs the tool calls of the last AI message and appends one           *)
(* ToolMessage per call, in call order; a failure becomes error content.   *)

ToolNodeContent(call, outcome) ==
    IF ~toolFind(call.name) THEN "Error: Tool not found"
    ELSE IF outcome.kind = "throw" THEN "Error: " \o outcome.value
    ELSE outcome.value

toolNode(msgs, outcomes) ==
    LET calls == Last(msgs).tool_calls
    IN  [i \in 1..Len(calls) |->
           ToolMessage(ToolNodeContent(calls[i], outcomes[i]), calls[i].id)]

NotRun == [kind |-> "throw", value |-> "not found"]

Retrieve ==
    /\ pc = "retrieve"
    /\ LET calls == Last(messages).tool_calls
       IN  \E outcomes \in [1..Len(calls) -> RetrieveOutcomes \cup {NotRun}] :
             /\ \A i \in 1..Len(calls) :
                  (outcomes[i] = NotRun) <=> ~toolFind(calls[i].name)
             /\ LET out == toolNode(messages, outcomes)
                IN  /\ messages' = messagesStateReducer(messages, out, nextId)
                    /\ nextId' = nextId + FreshCount(out)
    /\ pc' = "gradeDocuments"
    /\ executed' = Append(executed, "retrieve")
    /\ logBefore' = messages
    /\ gatewayCalls' = 0
    /\ response' = NoMsg
    /\ firstResponse' = NoMsg
    /\ UNCHANGED <<round, grading>>
    /\ UNCHANGED cancelAt

----------------------------------------------------------------------------
(* gradeDocuments, src/script.js:184-205 *)

gradePrompt(msgs) == [question |-> msgs[1].content, context |-> Last(msgs).content]

gradeDocuments_DefaultGenerate(binaryScore) ==
    IF binaryScore = "no" THEN "rewrite" ELSE "generate"

gradeDocuments(binaryScore) == IF binaryScore = "yes" THEN "generate" ELSE "rewrite"

GradeDocuments ==
    /\ pc = "gradeDocuments"
    /\ \E s \in Scores :
         /\ score' = s
         /\ verdict' = gradeDocuments(s)
    /\ gatewayCalls' = 1
    /\ logBefore' = messages
    /\ executed' = Append(executed, "gradeDocuments")
    /\ pc' = "checkRelevance"
    /\ UNCHANGED <<messages, response, firstResponse, round, nextId>>
    /\ UNCHANGED cancelAt

(* the structured-output call throws: transport error, or a reply that     *)
(* does not parse to gradeDocumentsSchema                                  *)
GradeGatewayFails ==
    /\ pc = "gradeDocuments"
    /\ score' = "none"
    /\ verdict' = "none"
    /\ gatewayCalls' = 1
    /\ logBefore' = messages
    /\ executed' = Append(executed, "gradeDocuments")
    /\ pc' = "failed"
    /\ UNCHANGED <<messages, response, firstResponse, round, nextId>>
    /\ UNCHANGED cancelAt

(* Conditional edge after gradeDocuments, src/script.js:407-415 *)
checkRelevance_Loop(msgs) ==
    LET lastMessage == Last(msgs)
    IN  IF lastMessage.content = "generate" THEN "generate"
        ELSE "generateQueryOrRespond"

checkRelevance(msgs) ==
    LET lastMessage == Last(msgs)
    IN  IF lastMessage.content = "generate" THEN "generate" ELSE "rewrite"

RouteAfterGrade ==
    /\ pc = "checkRelevance"
    /\ pc' = checkRelevance(messages)
    /\ UNCHANGED <<messages, response, firstResponse, round, gatewayCalls,
                   logBefore, grading, executed, nextId>>
    /\ UNCHANGED cancelAt

----------------------------------------------------------------------------
(* rewrite, src/script.js:252-264 *)

rewriteQuestion_Latest(msgs) == Last(msgs).content

rewriteQuestion(msgs) == msgs[1].content

Rewrite_ReplacesQuestion ==
    /\ pc = "rewrite"
    /\ Len(messages) <= MaxLog
    /\ messages' = [messages EXCEPT ![1].content = "improved question"]
    /\ gatewayCalls' = 1
    /\ logBefore' = messages
    /\ executed' = Append(executed, "rewrite")
    /\ pc' = "generateQueryOrRespond"
    /\ UNCHANGED <<response, firstResponse, round, grading, nextId>>
    /\ UNCHANGED cancelAt

Rewrite ==
    /\ pc = "rewrite"
    /\ Len(messages) <= MaxLog
    /\ LET reply == AIMessage(nextId, "improved question", <<>>)
       IN  messages' = messagesStateReducer(messages, messages \o <<reply>>, nextId + 1)
    /\ nextId' = nextId + 1
    /\ gatewayCalls' = 1
    /\ logBefore' = messages
    /\ executed' = Append(executed, "rewrite")
    /\ pc' = "generateQueryOrRespond"
    /\ UNCHANGED <<response, firstResponse, round, grading>>
    /\ UNCHANGED cancelAt

RewriteGatewayFails ==
    /\ pc = "rewrite"
    /\ Len(messages) <= MaxLog
    /\ gatewayCalls' = 1
    /\ logBefore' = messages
    /\ executed' = Append(executed, "rewrite")
    /\ pc' = "failed"
    /\ UNCHANGED <<messages, response, firstResponse, round, grading, nextId>>
    /\ UNCHANGED cancelAt

----------------------------------------------------------------------------
(* generate, src/script.js:300-328 *)

generatePrompt(msgs) == [question |-> msgs[1].content, context |-> Last(msgs).content]

Generate ==
    /\ pc = "generate"
    /\ LET reply == AIMessage(nextId, "answer", <<>>)
       IN  messages' = messagesStateReducer(messages, messages \o <<reply>>, nextId + 1)
    /\ nextId' = nextId + 1
    /\ gatewayCalls' = 1
    /\ logBefore' = messages
    /\ executed' = Append(executed, "generate")
    /\ pc' = END
    /\ UNCHANGED <<response, firstResponse, round, grading>>
    /\ UNCHANGED cancelAt

GenerateGatewayFails ==
    /\ pc = "generate"
    /\ gatewayCalls' = 1
    /\ logBefore' = messages
    /\ executed' = Append(executed, "generate")
    /\ pc' = "failed"
    /\ UNCHANGED <<messages, response, firstResponse, round, grading, nextId>>
    /\ UNCHANGED cancelAt

----------------------------------------------------------------------------
(* The run of the compiled graph, src/script.js:395-442 *)

inputs == <<HumanMessage(0, "question")>>

Init ==
    /\ messages = messagesStateReducer(<<>>, inputs, 1)
    /\ nextId = 2
    /\ pc = "generateQueryOrRespond"
    /\ response = NoMsg
    /\ firstResponse = NoMsg
    /\ settled = <<>>
    /\ pending = {}
    /\ invoked = {}
    /\ completionOrder = <<>>
    /\ threw = {}
    /\ toolIndex = 0
    /\ gatewayCalls = 0
    /\ logBefore = <<>>
    /\ score = "none"
    /\ verdict = "none"
    /\ executed = <<>>
    /\ cancelAt = NoSignal

Next ==
    \/ QR_GatewayFails
    \/ QR_DirectResponse
    \/ QR_DispatchTools
    \/ QR_ToolSettles
    \/ QR_PostToolResponse
    \/ QR_PostToolGatewayFails
    \/ RouteAfterQuery
    \/ Retrieve
    \/ GradeDocuments
    \/ GradeGatewayFails
    \/ RouteAfterGrade
    \/ Rewrite
    \/ RewriteGatewayFails
    \/ Generate
    \/ GenerateGatewayFails

Spec == Init /\ [][Next]_vars

(* The caller of the run asks to cancel it while a model or tool           *)
(* invocation is outstanding.  graph.stream(inputs), src/script.js:431, is *)
(* given no signal and no node reads one: the request changes nothing the  *)
(* program looks at.                                                       *)
InFlight ==
    \/ pc \in {"generateQueryOrRespond", "gradeDocuments", "rewrite", "generate"}
    \/ pc = "awaitTools"
    \/ /\ pc = "retrieve"
       /\ \E i \in 1..Len(Last(messages).tool_calls) :
              toolFind(Last(messages).tool_calls[i].name)

CancelSignal ==
    /\ cancelAt = NoSignal
    /\ InFlight
    /\ cancelAt' = Len(messages)
    /\ UNCHANGED <<messages, pc, response, firstResponse, round, gatewayCalls,
                   logBefore, grading, executed, nextId>>

NextCancel ==
    \/ Next
    \/ CancelSignal

SpecCancel == Init /\ [][NextCancel]_vars

----------------------------------------------------------------------------
(* The second definition of generateQueryOrRespond, src/script.js:526-565: *)
(* the tool calls are resolved one after the other and the model is        *)
(* invoked after each of them.                                             *)

SeqToolResult(call, outcome) ==
    IF outcome.kind = "throw"
    THEN [kind |-> "string",
          value |-> "Error running tool " \o call.name \o ": " \o outcome.value]
    ELSE outcome

SeqNotFound == "Tool not found"

(* the state of the loop when it reaches call i of calls *)
SeqEnter(calls, i) ==
    /\ toolIndex' = i
    /\ IF toolFind(calls[i].name)
       THEN /\ pending' = {i}
            /\ invoked' = invoked \cup {i}
            /\ settled' = [settled EXCEPT ![i] = Unsettled]
       ELSE /\ pending' = {}
            /\ invoked' = invoked
            /\ settled' = [settled EXCEPT ![i] = ToolMessage(SeqNotFound, calls[i].id)]

QR2_GatewayFails ==
    /\ pc = "generateQueryOrRespond"
    /\ pc' = "failed"
    /\ executed' = Append(executed, "generateQueryOrRespond")
    /\ gatewayCalls' = 1
    /\ logBefore' = messages
    /\ UNCHANGED <<messages, response, firstResponse, round, grading, nextId>>
    /\ UNCHANGED cancelAt

QR2_DirectResponse ==
    /\ pc = "generateQueryOrRespond"
    /\ LET reply == AIMessage(nextId, "reply", <<>>)
       IN  /\ response' = reply
           /\ firstResponse' = reply
           /\ messages' = messagesStateReducer(messages, <<reply>>, nextId + 1)
    /\ nextId' = nextId + 1
    /\ pc' = "shouldRetrieve"
    /\ executed' = Append(executed, "generateQueryOrRespond")
    /\ gatewayCalls' = 1
    /\ logBefore' = messages
    /\ UNCHANGED <<round, grading>>
    /\ UNCHANGED cancelAt

QR2_EnterLoop ==
    /\ pc = "generateQueryOrRespond"
    /\ \E names \in CallBatches \ {<<>>} :
         LET calls == ToolCalls(names, nextId)
             reply == AIMessage(nextId, "", calls)
         IN  /\ response' = reply
             /\ firstResponse' = reply
             /\ toolIndex' = 1
             /\ pending' = IF toolFind(calls[1].name) THEN {1} ELSE {}
             /\ invoked' = IF toolFind(calls[1].name) THEN {1} ELSE {}
             /\ settled' = [i \in 1..Len(calls) |->
                              IF i = 1 /\ ~toolFind(calls[1].name)
                              THEN ToolMessage(SeqNotFound, calls[1].id)
                              ELSE Unsettled]
    /\ completionOrder' = <<>>
    /\ threw' = {}
    /\ nextId' = nextId + 1
    /\ pc' = "toolLoop"
    /\ executed' = Append(executed, "generateQueryOrRespond")
    /\ gatewayCalls' = 1
    /\ logBefore' = messages
    /\ UNCHANGED <<messages, grading>>
    /\ UNCHANGED cancelAt

QR2_ToolSettles ==
    /\ pc = "toolLoop"
    /\ pending = {toolIndex}
    /\ \E outcome \in ToolOutcomes :
         LET call == firstResponse.tool_calls[toolIndex]
         IN  /\ settled' = [settled EXCEPT ![toolIndex] =
                              ToolMessage(ToolContent(SeqToolResult(call, outcome)), call.id)]
             /\ threw' = IF outcome.kind = "throw" THEN threw \cup {toolIndex} ELSE threw
    /\ pending' = {}
    /\ completionOrder' = Append(completionOrder, toolIndex)
    /\ UNCHANGED <<messages, pc, response, firstResponse, invoked, toolIndex,
                   gatewayCalls, logBefore, grading, executed, nextId>>
    /\ UNCHANGED cancelAt

(* the argument of the model invocation inside the loop *)
SeqLoopInput == messages \o <<response, settled[toolIndex]>>

QR2_LoopResponse ==
    /\ pc = "toolLoop"
    /\ pending = {}
    /\ \E names \in CallBatches :
         LET reply == AIMessage(nextId, IF names = <<>> THEN "reply" ELSE "",
                                ToolCalls(names, nextId))
             calls == firstResponse.tool_calls
         IN  /\ response' = reply
             /\ IF toolIndex < Len(calls)
                THEN /\ SeqEnter(calls, toolIndex + 1)
                     /\ pc' = "toolLoop"
                     /\ messages' = messages
                ELSE /\ UNCHANGED <<toolIndex, pending, invoked, settled>>
                     /\ pc' = "shouldRetrieve"
                     /\ messages' = messagesStateReducer(messages, <<reply>>, nextId + 1)
    /\ gatewayCalls' = gatewayCalls + 1
    /\ nextId' = nextId + 1
    /\ UNCHANGED <<firstResponse, completionOrder, threw, logBefore, grading, executed>>
    /\ UNCHANGED cancelAt

QR2_LoopGatewayFails ==
    /\ pc = "toolLoop"
    /\ pending = {}
    /\ gatewayCalls' = gatewayCalls + 1
    /\ pc' = "failed"
    /\ UNCHANGED <<messages, response, firstResponse, round, logBefore, grading,
                   executed, nextId>>
    /\ UNCHANGED cancelAt

NextSeq ==
    \/ QR2_GatewayFails
    \/ QR2_DirectResponse
    \/ QR2_EnterLoop
    \/ QR2_ToolSettles
    \/ QR2_LoopResponse
    \/ QR2_LoopGatewayFails

SpecSeq == Init /\ [][NextSeq]_vars

----------------------------------------------------------------------------
(* Properties *)

(* executions of rewrite that were followed by another generateQueryOrRespond *)
RewriteCycles ==
    Cardinality({i \in 1..(Len(executed) - 1) :
                   executed[i] = "rewrite" /\ executed[i + 1] = "generateQueryOrRespond"})

(* position of the latest generateQueryOrRespond in executed, 0 if none *)
LastQuery ==
    LET at == {i \in 1..Len(executed) : executed[i] = "generateQueryOrRespond"}
    IN  IF at = {} THEN 0 ELSE CHOOSE i \in at : \A j \in at : j <= i

GradedAfterLastQuery ==
    \E j \in 1..Len(executed) : j > LastQuery /\ executed[j] = "gradeDocuments"

(* the tool calls of the first reply of the running generateQueryOrRespond *)
RoundCalls == firstResponse.tool_calls

(* C1: after gradeDocuments the next node is the one its verdict names:    *)
(* generate for binaryScore 'yes', rewrite otherwise, whatever the latest  *)
(* message contains.                                                       *)
C1_VerdictDecidesRoute ==
    pc \in {"generate", "rewrite"} => pc = verdict

(* C2: a run in which generateQueryOrRespond resolved tool calls does not  *)
(* end before gradeDocuments has run after that round.                     *)
C2_ToolRoundThenGrade ==
    (pc = END /\ firstResponse.type = "ai" /\ Len(RoundCalls) > 0)
        => GradedAfterLastQuery

(* C3: when the first reply requests k >= 1 tool calls, the log after the  *)
(* node is the log before it followed by that reply, the k tool messages   *)
(* in call order, and the post-tool reply.                                 *)
C3_LogExtendedByRound ==
    (pc = "shouldRetrieve" /\ Len(RoundCalls) >= 1) =>
        LET n == Len(logBefore)
            k == Len(RoundCalls)
        IN  /\ Len(messages) = n + k + 2
            /\ SubSeq(messages, 1, n) = logBefore
            /\ messages[n + 1] = firstResponse
            /\ \A i \in 1..k :
                 /\ messages[n + 1 + i].type = "tool"
                 /\ messages[n + 1 + i].tool_call_id = RoundCalls[i].id
            /\ messages[n + k + 2] = response

(* C4: once every dispatched call has completed, the tool messages handed  *)
(* on by the round are in call order: the i-th carries the id of the i-th  *)
(* tool call, for every completion order.                                  *)
C4_ResultsInCallOrder ==
    (pc = "awaitTools" /\ pending = {}) =>
        /\ Len(toolResponses) = Len(RoundCalls)
        /\ \A i \in 1..Len(RoundCalls) :
             /\ updatedMessages[Len(messages) + 1 + i].type = "tool"
             /\ updatedMessages[Len(messages) + 1 + i].tool_call_id = RoundCalls[i].id

C4_Witness ==
    /\ pc = "awaitTools"
    /\ pending = {}
    /\ completionOrder = <<2, 1>>

(* C5: a tool invocation that throws does not fail the node; the call gets *)
(* a tool message with the error description, and every call of the batch  *)
(* whose tool is registered is invoked and gets its own tool message.      *)
C5_FaultIsolation ==
    /\ threw # {} => (pc = "awaitTools" \/ (pc = "failed" /\ gatewayCalls = 2))
    /\ pc = "awaitTools" =>
         /\ invoked = {i \in 1..Len(RoundCalls) : RoundCalls[i].name \in tools}
         /\ \A i \in threw :
              settled[i] = ToolMessage("Error: boom", RoundCalls[i].id)
         /\ \A i \in (1..Len(RoundCalls)) \ pending :
              /\ settled[i].type = "tool"
              /\ settled[i].tool_call_id = RoundCalls[i].id

C5_Witness ==
    /\ pc = "awaitTools"
    /\ pending = {}
    /\ threw = {2}
    /\ invoked = {1, 2}
    /\ settled[1].content = "docs"

(* C6: a tool call whose name is not registered is never invoked and gets  *)
(* the error tool message for its own call id; the node keeps running.     *)
C6_UnknownToolIsError ==
    pc = "awaitTools" =>
        \A i \in 1..Len(RoundCalls) :
            RoundCalls[i].name \notin tools =>
                /\ i \notin invoked
                /\ settled[i] = ToolMessage("Tool execution error", RoundCalls[i].id)

C6_Witness ==
    /\ pc = "awaitTools"
    /\ pending = {}
    /\ \E i \in 1..Len(RoundCalls) : RoundCalls[i].name \notin tools
    /\ \E i \in 1..Len(RoundCalls) : RoundCalls[i].name \in tools

(* C7: one execution of generateQueryOrRespond invokes the model at most   *)
(* twice: once when the first reply has no tool calls, twice otherwise,    *)
(* however many tool calls there are.                                      *)
C7_AtMostTwoInvocations ==
    /\ gatewayCalls <= 2
    /\ pc = "shouldRetrieve" =>
         gatewayCalls = (IF Len(RoundCalls) = 0 THEN 1 ELSE 2)

(* C8: when the latest message after generateQueryOrRespond is an AI       *)
(* message without tool calls the edge yields END; a run whose first reply *)
(* has no tool calls ends with that reply as the last message and no other *)
(* node runs.                                                              *)
C8_NoToolCallsTerminates ==
    /\ [][(pc = "shouldRetrieve" /\ Last(messages).type = "ai"
             /\ Len(Last(messages).tool_calls) = 0) => pc' = END]_vars
    /\ []((Len(executed) = 1 /\ firstResponse.type = "ai" /\ Len(RoundCalls) = 0
             /\ pc # "shouldRetrieve")
            => (pc = END /\ Last(messages) = firstResponse /\ Len(messages) = 2))

C8_Witness ==
    /\ pc = END
    /\ executed = <<"generateQueryOrRespond">>
    /\ Len(RoundCalls) = 0
    /\ Last(messages) = firstResponse

(* C9: the number of rewrite -> generateQueryOrRespond cycles of a run     *)
(* never exceeds the iteration cap.                                        *)
C9_CyclesCapped ==
    RewriteCycles <= IterationCap

(* C10: a grader output other than 'yes' or 'no' is not routed on: the run *)
(* is in the failed state.                                                 *)
C10_BadLabelFails ==
    score \notin {"none", "yes", "no"} => pc = "failed"

(* C11: a failed model invocation ends the run: the run is in the failed   *)
(* state, no node or invocation follows, and the log is the log the        *)
(* failing node started with.                                              *)
C11_GatewayFailureEndsRun ==
    pc = "failed" =>
        /\ messages = logBefore
        /\ ~ENABLED Next

C11_Witness ==
    /\ pc = "failed"
    /\ Last(executed) = "generateQueryOrRespond"
    /\ gatewayCalls = 2
    /\ RewriteCycles = 1

(* C12: the question that gradeDocuments, rewrite and generate put into    *)
(* their prompt is the content of the first message of the log, and that   *)
(* message is the user question the run was started with, also after       *)
(* rewrite cycles.                                                         *)
C12_SeedAnchoring ==
    /\ messages[1].type = "human"
    /\ messages[1].content = inputs[1].content
    /\ pc = "gradeDocuments" => gradePrompt(messages).question = inputs[1].content
    /\ pc = "rewrite" => rewriteQuestion(messages) = inputs[1].content
    /\ pc = "generate" => generatePrompt(messages).question = inputs[1].content

C12_Witness ==
    /\ pc = "rewrite"
    /\ RewriteCycles = 1
    /\ rewriteQuestion(messages) = "question"
    /\ \E i \in 2..Len(messages) : messages[i].content = "improved question"

IsPrefix(s, t) == Len(s) <= Len(t) /\ SubSeq(t, 1, Len(s)) = s

(* C13: the log only grows: the log a node received is a prefix of the     *)
(* log during and after that node, and no message occurs twice.            *)
C13_AppendOnly ==
    /\ IsPrefix(logBefore, messages)
    /\ \A i, j \in 1..Len(messages) : messages[i].id = messages[j].id => i = j

C13_Witness ==
    /\ pc = "gradeDocuments"
    /\ RewriteCycles = 1
    /\ Len(messages) = Len(logBefore) + 2

(* every tool message of seq answers a tool call of an earlier AI message *)
Linked(seq) ==
    \A i \in 1..Len(seq) :
        seq[i].type = "tool" =>
            \E j \in 1..(i - 1) :
                /\ seq[j].type = "ai"
                /\ \E k \in 1..Len(seq[j].tool_calls) :
                       seq[j].tool_calls[k].id = seq[i].tool_call_id

(* C14: every tool message in the log, and in the messages passed to the   *)
(* post-tool model invocation, carries the id of a tool call of an AI      *)
(* message that precedes it in the same sequence.                          *)
C14_ToolCallIdLinked ==
    /\ Linked(messages)
    /\ (pc = "awaitTools" /\ pending = {}) => Linked(updatedMessages)

C14_Witness ==
    /\ pc = "awaitTools"
    /\ pending = {}
    /\ Len(toolResponses) = 2
    /\ toolResponses[2].tool_call_id = response.tool_calls[2].id
    /\ \E i \in 1..Len(messages) : messages[i].type = "tool"

(* C15: gradeDocuments appends nothing to the log, and the verdict it      *)
(* returns is the decision the edge after it takes.                        *)
C15_VerdictNotATurn ==
    pc = "checkRelevance" =>
        /\ messages = logBefore
        /\ checkRelevance(messages) = verdict

(* C16: gradeDocuments returns "generate" exactly when binaryScore is      *)
(* "yes" and "rewrite" for every other score, and nothing else.            *)
C16_GenerateIffYes ==
    score # "none" =>
        /\ verdict \in {"generate", "rewrite"}
        /\ (verdict = "generate") <=> (score = "yes")
        /\ (verdict = "rewrite") <=> (score # "yes")

C16_Witness ==
    /\ pc = "checkRelevance"
    /\ Last(messages).content = "meow"
    /\ score = "no"
    /\ verdict = "rewrite"

(* C17: every tool call of the reply whose tool exists is invoked in the   *)
(* step that starts the round, before any of them completes; the post-tool *)
(* model invocation happens only when every one of them has settled,       *)
(* by returning or by throwing.                                            *)
C17_FanOutFanIn ==
    [][/\ (pc = "generateQueryOrRespond" /\ pc' = "awaitTools") =>
              /\ invoked' = {i \in 1..Len(response'.tool_calls) :
                                toolFind(response'.tool_calls[i].name)}
              /\ pending' = invoked'
       /\ (pc = "awaitTools" /\ pc' = "awaitTools") => invoked' = invoked
       /\ (pc = "awaitTools" /\ gatewayCalls' # gatewayCalls) =>
              /\ pending = {}
              /\ \A i \in 1..Len(settled) : settled[i].type = "tool"]_vars

C17_Witness ==
    /\ pc = "awaitTools"
    /\ Cardinality(invoked) = 2
    /\ pending = {}
    /\ threw = {1}
    /\ completionOrder = <<2, 1>>
    /\ ENABLED QR_PostToolResponse

(* C19: once cancellation has been requested, no message is appended for   *)
(* a call that had not returned at that moment, and the run does not go on *)
(* to its normal end.                                                      *)
C19_CancelStopsRun ==
    cancelAt # NoSignal =>
        /\ Len(messages) = cancelAt
        /\ pc # END

(* the edges of the builder, src/script.js:400-417, as pairs of nodes *)
Successors ==
    {<<"generateQueryOrRespond", "retrieve">>,
     <<"retrieve", "gradeDocuments">>,
     <<"gradeDocuments", "generate">>,
     <<"gradeDocuments", "rewrite">>,
     <<"rewrite", "generateQueryOrRespond">>}

(* C20: the first node run is generateQueryOrRespond; each node run after  *)
(* another is one of its successors in the graph (rewrite is followed by   *)
(* generateQueryOrRespond, retrieve by gradeDocuments, gradeDocuments by   *)
(* generate or rewrite, generate by nothing); one node runs at a time.     *)
C20_SuccessorRelation ==
    /\ executed = <<>> => pc = "generateQueryOrRespond"
    /\ executed # <<>> => executed[1] = "generateQueryOrRespond"
    /\ \A i \in 1..(Len(executed) - 1) : <<executed[i], executed[i + 1]>> \in Successors
    /\ executed # <<>> =>
         LET node == Last(executed)
         IN  /\ node = "generateQueryOrRespond" =>
                    pc \in {"awaitTools", "shouldRetrieve", "retrieve", END, "failed"}
             /\ node = "retrieve" => pc = "gradeDocuments"
             /\ node = "gradeDocuments" =>
                    pc \in {"checkRelevance", "generate", "rewrite", "failed"}
             /\ node = "rewrite" => pc \in {"generateQueryOrRespond", "failed"}
             /\ node = "generate" => pc \in {END, "failed"}
    /\ pc # "awaitTools" => pending = {}

C20_Witness ==
    /\ pc = END
    /\ executed = <<"generateQueryOrRespond", "retrieve", "gradeDocuments", "rewrite",
                    "generateQueryOrRespond", "retrieve", "gradeDocuments", "generate">>

(* C21: when rewrite or generate has returned, the log is the log the node *)
(* received plus exactly one message, the model's reply without tool       *)
(* calls; the node made one model invocation and invoked no tool.          *)
C21_OneTurnNoTool ==
    (/\ executed # <<>>
     /\ \/ Last(executed) = "rewrite" /\ pc = "generateQueryOrRespond"
        \/ Last(executed) = "generate" /\ pc = END) =>
        /\ Len(messages) = Len(logBefore) + 1
        /\ SubSeq(messages, 1, Len(logBefore)) = logBefore
        /\ Last(messages).type = "ai"
        /\ Last(messages).tool_calls = <<>>
        /\ Last(messages).content =
               (IF Last(executed) = "rewrite" THEN "improved question" ELSE "answer")
        /\ gatewayCalls = 1
        /\ invoked = {}
        /\ pending = {}

C21_Witness ==
    /\ pc = END
    /\ Last(executed) = "generate"
    /\ Last(messages).content = "answer"
    /\ \E i \in 1..Len(executed) :
           /\ executed[i] = "rewrite"
           /\ \E k \in 1..(Len(messages) - 1) : messages[k].content = "improved question"

(* C22: in the tool round of generateQueryOrRespond every tool call of the *)
(* reply completes exactly once and is answered by exactly one ToolMessage *)
(* carrying its id, whether its tool returned, threw or does not exist;    *)
(* only calls whose tool exists are invoked, each of them once.            *)
C22_OneResultPerCall ==
    pc = "awaitTools" =>
        LET calls == response.tool_calls
            done == 1..Len(calls) \ pending
        IN  /\ Len(settled) = Len(calls)
            /\ invoked = {i \in 1..Len(calls) : toolFind(calls[i].name)}
            /\ pending \subseteq invoked
            /\ Len(completionOrder) = Cardinality(done)
            /\ {completionOrder[j] : j \in 1..Len(completionOrder)} = done
            /\ \A i \in pending : settled[i] = Unsettled
            /\ \A i \in done :
                   /\ settled[i].type = "tool"
                   /\ settled[i].tool_call_id = calls[i].id
            /\ threw \subseteq invoked \ pending
            /\ pending = {} =>
                   /\ Len(toolResponses) = Len(calls)
                   /\ \A i \in 1..Len(calls) :
                          Cardinality({j \in 1..Len(toolResponses) :
                              toolResponses[j].tool_call_id = calls[i].id}) = 1

C22_Witness ==
    /\ pc = "awaitTools"
    /\ pending = {}
    /\ Len(response.tool_calls) = 2
    /\ invoked = {2}
    /\ threw = {2}
    /\ Len(toolResponses) = 2
    /\ toolResponses[1].content = DefaultToolResult

(* C23: whenever gradeDocuments or generate is about to run, the log is    *)
(* not empty and its last message is a tool message, so the context that   *)
(* is graded and the context of the answer are tool output.                *)
C23_ContextIsToolOutput ==
    /\ pc = "gradeDocuments" =>
           /\ messages # <<>>
           /\ Last(messages).type = "tool"
           /\ gradePrompt(messages).context = Last(messages).content
    /\ pc = "generate" =>
           /\ messages # <<>>
           /\ Last(messages).type = "tool"
           /\ generatePrompt(messages).context = Last(messages).content

C23_Witness ==
    /\ pc = "generate"
    /\ Last(executed) = "gradeDocuments"
    /\ Last(messages).type = "tool"
    /\ generatePrompt(messages).context = "generate"
    /\ RewriteCycles = 1

====
